---- MODULE Spec2Model ----
(***************************************************************************)
(* A model of scraper.py: four source adapters, the keyword filter, the    *)
(* day-keyed history file with its retention window, the HTML report and   *)
(* the pipeline main() that runs them in order.                            *)
(*                                                                         *)
(* Python strings are sequences of one-character strings, a date is the    *)
(* triple <<year, month, day>>, a dict is a function, and a call that      *)
(* raises returns the exception's name instead of a value.                 *)
(***************************************************************************)
EXTENDS Integers, Sequences, FiniteSets, TLC

VARIABLES
    pc,          \* the statement of main() that runs next, "done" or "aborted"
    failed,      \* [stage, error] of the exception that ended the run, or NoFailure
    clock,       \* the system clock's day, as a proleptic Gregorian ordinal
    ticks,       \* midnights passed so far
    runs,        \* invocations of main() so far
    file,        \* jobs_history.json: Missing, Unreadable or the stored dict
    doc,         \* index.html: Missing, Truncated or the rendered document
    KEYWORDS,    \* the module-level keyword list
    all_jobs,    \* main's all_jobs
    today_jobs,  \* main's today_jobs
    history,     \* main's history
    upd,         \* update_history's locals at its last statement reached
    log,         \* this run's reads and writes of durable state, in order
    run0,        \* file and doc as they were when this run started
    saves        \* the day-key and listings of every update_history that saved, oldest first

vars == <<pc, failed, clock, ticks, runs, file, doc, KEYWORDS, all_jobs,
          today_jobs, history, upd, log, run0, saves>>

(***************************************************************************)
(* Bounds of the model.                                                    *)
(***************************************************************************)
MaxRuns == 2        \* invocations of main() in one behaviour
MaxTicks == 2       \* midnights in one behaviour
PastDays == 35      \* longest run of consecutive past days in a stored history
MaxJobs == 2        \* longest listing sequence handed to filter_jobs alone

(***************************************************************************)
(* Strings.                                                                *)
(***************************************************************************)
\* An optional value (a tag or attribute the markup may lack): None or Some(v)
None == {}
Some(v) == {v}
The(x) == CHOOSE v \in x : TRUE

UpperChars == <<"A","B","C","D","E","F","G","H","I","J","K","L","M",
                "N","O","P","Q","R","S","T","U","V","W","X","Y","Z">>
LowerChars == <<"a","b","c","d","e","f","g","h","i","j","k","l","m",
                "n","o","p","q","r","s","t","u","v","w","x","y","z">>

\* str.lower() on one character
LowerChar(c) ==
    IF \E i \in 1..Len(UpperChars) : UpperChars[i] = c
    THEN LowerChars[CHOOSE i \in 1..Len(UpperChars) : UpperChars[i] = c]
    ELSE c

\* str.lower()
Lower(s) == [i \in 1..Len(s) |-> LowerChar(s[i])]

\* k in text
Contains(text, k) ==
    \E i \in 1..(Len(text) - Len(k) + 1) : SubSeq(text, i, i + Len(k) - 1) = k

\* s.startswith(p)
StartsWith(s, p) == Len(s) >= Len(p) /\ SubSeq(s, 1, Len(p)) = p

\* What a call returns: the exception it raised (NoError when it returned) and its value
NoError == "none"
Returned(v) == [raised |-> NoError, value |-> v]
Raised(e) == [raised |-> e, value |-> <<>>]

DigitChars == <<"0","1","2","3","4","5","6","7","8","9">>
IsDigit(c) == \E i \in 1..Len(DigitChars) : DigitChars[i] = c
DigitVal(c) == (CHOOSE i \in 1..Len(DigitChars) : DigitChars[i] = c) - 1

\* "%0<width>d" % n
RECURSIVE ZeroPad(_, _)
ZeroPad(n, width) ==
    IF width = 0 THEN <<>>
    ELSE Append(ZeroPad(n \div 10, width - 1), DigitChars[(n % 10) + 1])

\* int(s) for a string of digits
RECURSIVE ParseInt(_)
ParseInt(s) ==
    IF s = <<>> THEN 0
    ELSE 10 * ParseInt(SubSeq(s, 1, Len(s) - 1)) + DigitVal(s[Len(s)])

\* Python's order on strings of the characters a day-key is made of
CharCode(c) == IF c = "-" THEN 45 ELSE 48 + DigitVal(c)

RECURSIVE StrLess(_, _)
StrLess(a, b) ==
    IF b = <<>> THEN FALSE
    ELSE IF a = <<>> THEN TRUE
    ELSE IF a[1] # b[1] THEN CharCode(a[1]) < CharCode(b[1])
    ELSE StrLess(Tail(a), Tail(b))

(***************************************************************************)
(* datetime.date.                                                          *)
(***************************************************************************)
DaysInMonthTable == <<31, 28, 31, 30, 31, 30, 31, 31, 30, 31, 30, 31>>
DaysBeforeMonthTable == <<0, 31, 59, 90, 120, 151, 181, 212, 243, 273, 304, 334>>

IsLeap(y) == y % 4 = 0 /\ (y % 100 # 0 \/ y % 400 = 0)

DaysInMonth(y, m) == IF m = 2 /\ IsLeap(y) THEN 29 ELSE DaysInMonthTable[m]

DaysBeforeYear(y) ==
    (y - 1) * 365 + ((y - 1) \div 4) - ((y - 1) \div 100) + ((y - 1) \div 400)

DaysBeforeMonth(y, m) == DaysBeforeMonthTable[m] + (IF m > 2 /\ IsLeap(y) THEN 1 ELSE 0)

\* date.toordinal()
toordinal(d) == DaysBeforeYear(d[1]) + DaysBeforeMonth(d[1], d[2]) + d[3]

\* date.fromordinal(n)
fromordinal(n) ==
    LET n0   == n - 1
        n400 == n0 \div 146097
        r400 == n0 % 146097
        n100 == r400 \div 36524
        r100 == r400 % 36524
        n4   == r100 \div 1461
        r4   == r100 % 1461
        n1   == r4 \div 365
        r1   == r4 % 365
        year == n400 * 400 + 1 + n100 * 100 + n4 * 4 + n1
        leap == n1 = 3 /\ (n4 # 24 \/ n100 = 3)
        before(m) == DaysBeforeMonthTable[m] + (IF m > 2 /\ leap THEN 1 ELSE 0)
        guess == (r1 + 50) \div 32
        month == IF before(guess) > r1 THEN guess - 1 ELSE guess
    IN  IF n1 = 4 \/ n100 = 4 THEN <<year - 1, 12, 31>>
        ELSE <<year, month, r1 - before(month) + 1>>

\* date.today(), read when the clock shows day c
today(c) == fromordinal(c)

\* date - timedelta(days=n)
MinusDays(d, n) == fromordinal(toordinal(d) - n)

\* d1 >= d2 on dates
DateGeq(d1, d2) ==
    \/ d1[1] > d2[1]
    \/ d1[1] = d2[1] /\ d1[2] > d2[2]
    \/ d1[1] = d2[1] /\ d1[2] = d2[2] /\ d1[3] >= d2[3]

\* date.isoformat()
isoformat(d) == ZeroPad(d[1], 4) \o <<"-">> \o ZeroPad(d[2], 2) \o <<"-">> \o ZeroPad(d[3], 2)

\* date.fromisoformat(s): the date, or ValueError raised
fromisoformat(s) ==
    IF /\ Len(s) = 10
       /\ s[5] = "-" /\ s[8] = "-"
       /\ \A i \in {1, 2, 3, 4, 6, 7, 9, 10} : IsDigit(s[i])
    THEN LET y == ParseInt(SubSeq(s, 1, 4))
             m == ParseInt(SubSeq(s, 6, 7))
             d == ParseInt(SubSeq(s, 9, 10))
         IN  IF y >= 1 /\ m \in 1..12 /\ d >= 1 /\ d <= DaysInMonth(y, m)
             THEN Returned(<<y, m, d>>)
             ELSE Raised("ValueError")
    ELSE Raised("ValueError")

(***************************************************************************)
(* Configuration (lines 6-15).  A URL is a sequence of chunks, the scheme  *)
(* prefix "http" being a chunk of its own; titles, companies, keywords and *)
(* day-keys are sequences of characters.                                   *)
(***************************************************************************)
Sources == <<"Indeed", "ZipRecruiter", "PilotCareerCenter", "Glassdoor">>

JOB_SOURCES ==
    [s \in {Sources[i] : i \in 1..Len(Sources)} |->
        CASE s = "Indeed" -> <<"http", "s://www.indeed.com/jobs?q=pilot">>
          [] s = "ZipRecruiter" -> <<"http", "s://www.ziprecruiter.com/candidate/search">>
          [] s = "PilotCareerCenter" -> <<"http", "s://pilotcareercenter.com/PHOENIX-PILOT-JOBS">>
          [] s = "Glassdoor" -> <<"http", "s://www.glassdoor.com/Job/phoenix-pilot-jobs">>]

DefaultKeywords ==
    << <<"c","a","r","a","v","a","n">>,
       <<"p","c","-","1","2">>,
       <<"s","k","y"," ","c","o","u","r","i","e","r">>,
       <<"c","a","r","g","o">>,
       <<"p","a","r","t"," ","1","3","5">> >>

DAYS_TO_KEEP == 30

Unknown == <<"U","n","k","n","o","w","n">>
PilotJob == <<"P","i","l","o","t"," ","J","o","b">>

Job(t, c, l, s) == [title |-> t, company |-> c, link |-> l, source |-> s]

(***************************************************************************)
(* Source adapters (lines 21-67).  A page is Unavailable when requests.get  *)
(* raises, else Page(els), the sequence of elements the selector finds.    *)
(* An element's field is None where the markup has no such tag/attribute.  *)
(***************************************************************************)
Unavailable == [up |-> FALSE, els |-> <<>>]
Page(els) == [up |-> TRUE, els |-> els]

\* One pass of fetch_indeed's loop body (lines 26-29)
IndeedCard(card) ==
    IF card.h2 = None THEN Raised("AttributeError")
    ELSE IF card.a = None THEN Raised("TypeError")
    ELSE IF card.href = None THEN Raised("KeyError")
    ELSE Returned(<<Job(The(card.h2),
                        IF card.companyName # None THEN The(card.companyName) ELSE Unknown,
                        <<"http", "s://www.indeed.com">> \o The(card.href),
                        "Indeed")>>)

\* One pass of fetch_zip's loop body (lines 37-42)
ZipCard(card) ==
    IF card.a = None THEN Returned(<<>>)
    ELSE IF card.href = None THEN Raised("KeyError")
    ELSE Returned(<<Job(The(card.a),
                        IF card.org # None THEN The(card.org) ELSE Unknown,
                        IF StartsWith(The(card.href), <<"http">>)
                        THEN The(card.href)
                        ELSE <<"http", "s://www.ziprecruiter.com">> \o The(card.href),
                        "ZipRecruiter")>>)

\* One pass of fetch_pilotcareercenter's loop body (lines 50-55); a row is its td texts
PilotCareerCenterRow(cols) ==
    IF Len(cols) >= 2
    THEN Returned(<<Job(cols[1], cols[2], JOB_SOURCES["PilotCareerCenter"], "PilotCareerCenter")>>)
    ELSE Returned(<<>>)

\* card.get(key, default)
Get(v, default) == IF v # None THEN The(v) ELSE default

\* One pass of fetch_glassdoor's loop body (lines 63-66)
GlassdoorCard(card) ==
    Returned(<<Job(Get(card.title, PilotJob),
                   Get(card.company, Unknown),
                   <<"http", "s://www.glassdoor.com">> \o Get(card.link, <<>>),
                   "Glassdoor")>>)

Element(src, el) ==
    CASE src = "Indeed" -> IndeedCard(el)
      [] src = "ZipRecruiter" -> ZipCard(el)
      [] src = "PilotCareerCenter" -> PilotCareerCenterRow(el)
      [] src = "Glassdoor" -> GlassdoorCard(el)

\* The adapters' for loop: jobs grows element by element; an exception ends the call
RECURSIVE ParseElements(_, _, _)
ParseElements(src, els, jobs) ==
    IF els = <<>> THEN Returned(jobs)
    ELSE LET r == Element(src, Head(els))
         IN  IF r.raised # NoError THEN Raised(r.raised)
             ELSE ParseElements(src, Tail(els), jobs \o r.value)

\* fetch_indeed, fetch_zip, fetch_pilotcareercenter, fetch_glassdoor
fetch(src, page) ==
    IF ~page.up THEN Raised("ConnectionError")
    ELSE ParseElements(src, page.els, <<>>)

(***************************************************************************)
(* filter_jobs (lines 73-79).                                              *)
(***************************************************************************)
\* lines 76-77 without the .lower()
Matches_CaseSensitive(job, keywords) ==
    LET text == job.title \o << " " >> \o job.company
    IN  \E i \in 1..Len(keywords) : Contains(text, keywords[i])

\* line 76-77: does the job pass
Matches(job, keywords) ==
    LET text == Lower(job.title \o << " " >> \o job.company)
    IN  \E i \in 1..Len(keywords) : Contains(text, keywords[i])

RECURSIVE filter_jobs(_, _)
filter_jobs(jobs, keywords) ==
    IF jobs = <<>> THEN <<>>
    ELSE LET rest == filter_jobs(SubSeq(jobs, 1, Len(jobs) - 1), keywords)
             job == jobs[Len(jobs)]
         IN  IF Matches(job, keywords) THEN Append(rest, job) ELSE rest

(***************************************************************************)
(* The history file (lines 81-101).  jobs_history.json either does not     *)
(* exist, or exists and cannot be read back (open or json.load raises), or *)
(* holds a dict from day-key to listings.  json.dump and json.load are     *)
(* inverse on such a dict: string keys, lists of dicts of strings.         *)
(***************************************************************************)
EmptyDict == [k \in {} |-> <<>>]

MissingFile == [exists |-> FALSE, readable |-> FALSE, data |-> EmptyDict]
UnreadableFile == [exists |-> TRUE, readable |-> FALSE, data |-> EmptyDict]
StoredFile(h) == [exists |-> TRUE, readable |-> TRUE, data |-> h]

\* load_history with the read's exception swallowed
load_history_SwallowsError(f) ==
    IF f.exists /\ f.readable THEN Returned(f.data) ELSE Returned(EmptyDict)

load_history(f) ==
    IF f.exists
    THEN IF f.readable THEN Returned(f.data) ELSE Raised("JSONDecodeError")
    ELSE Returned(EmptyDict)

\* line 94 adding to the day's listings instead of replacing them
SetItem_Accumulates(h, k, v) ==
    [x \in DOMAIN h \cup {k} |->
        IF x = k THEN (IF k \in DOMAIN h THEN h[k] \o v ELSE v) ELSE h[x]]

\* history[today_str] = today_jobs (line 94)
SetItem(h, k, v) == [x \in DOMAIN h \cup {k} |-> IF x = k THEN v ELSE h[x]]

\* line 97, the clock showing day c when date.today() is called
Cutoff(c) == MinusDays(today(c), DAYS_TO_KEEP)

\* line 98: the dict comprehension, or the ValueError of a key that is no date
Prune(h, cutoff) ==
    IF \E day \in DOMAIN h : fromisoformat(day).raised # NoError
    THEN Raised("ValueError")
    ELSE Returned([day \in {d \in DOMAIN h : DateGeq(fromisoformat(d).value, cutoff)}
                      |-> h[day]])

NoLocals == [today_str |-> <<>>, loaded |-> EmptyDict, cutoff |-> <<>>]

\* update_history up to the call of save_history (lines 92-98), the clock showing
\* day c1 at line 92 and day c2 at line 97
update_history(f, jobs, c1, c2) ==
    LET today_str == isoformat(today(c1))
        loaded == load_history(f)
        cutoff == Cutoff(c2)
        pruned == Prune(SetItem(loaded.value, today_str, jobs), cutoff)
    IN  IF loaded.raised # NoError
        THEN [raised |-> loaded.raised, value |-> EmptyDict, calls |-> <<"load">>,
              locals |-> [NoLocals EXCEPT !.today_str = today_str]]
        ELSE IF pruned.raised # NoError
        THEN [raised |-> pruned.raised, value |-> EmptyDict, calls |-> <<"load">>,
              locals |-> [today_str |-> today_str, loaded |-> loaded.value, cutoff |-> cutoff]]
        ELSE [raised |-> NoError, value |-> pruned.value, calls |-> <<"load", "save">>,
              locals |-> [today_str |-> today_str, loaded |-> loaded.value, cutoff |-> cutoff]]

\* save_history (lines 87-89): the file afterwards.  open() may raise and leave
\* the file alone; json.dump may raise after open() truncated it.
save_history(f, h, outcome) ==
    CASE outcome = "written" -> StoredFile(h)
      [] outcome = "open raised" -> f
      [] outcome = "dump raised" -> UnreadableFile

SaveOutcomes == {"written", "open raised", "dump raised"}

(***************************************************************************)
(* generate_html (lines 107-131).  The document is its date line, the list *)
(* of today's jobs and the list of days, each an <h3> and its jobs.        *)
(***************************************************************************)
MonthNames == <<"January", "February", "March", "April", "May", "June", "July",
                "August", "September", "October", "November", "December">>

\* strftime("%B %d, %Y")
strftime(d) == <<MonthNames[d[2]], ZeroPad(d[3], 2), ZeroPad(d[1], 4)>>

\* sorted(history.items(), reverse=True), as the sequence of the keys: each key
\* goes after the keys greater than it
RECURSIVE SortedReverse(_)
SortedReverse(keys) ==
    IF keys = {} THEN <<>>
    ELSE LET k == CHOOSE x \in keys : TRUE
             rest == SortedReverse(keys \ {k})
             n == Cardinality({i \in 1..Len(rest) : StrLess(k, rest[i])})
         IN  SubSeq(rest, 1, n) \o <<k>> \o SubSeq(rest, n + 1, Len(rest))

NoDoc == [exists |-> FALSE, complete |-> FALSE, updated |-> <<>>,
          none_today |-> FALSE, today |-> <<>>, days |-> <<>>]
TruncatedDoc == [NoDoc EXCEPT !.exists = TRUE]

\* the html string of lines 108-129, the clock showing day c
Html(jobs, h, c) ==
    LET order == SortedReverse(DOMAIN h)
    IN  [exists |-> TRUE, complete |-> TRUE,
         updated |-> strftime(today(c)),
         none_today |-> (jobs = <<>>),
         today |-> jobs,
         days |-> [i \in 1..Len(order) |-> [day |-> order[i], jobs |-> h[order[i]]]]]

\* lines 130-131: index.html afterwards
generate_html(d, jobs, h, c, outcome) ==
    CASE outcome = "written" -> Html(jobs, h, c)
      [] outcome = "open raised" -> d
      [] outcome = "write raised" -> TruncatedDoc

RenderOutcomes == {"written", "open raised", "write raised"}

(***************************************************************************)
(* What the sources serve and what the history file holds at the start.    *)
(***************************************************************************)
IndeedPages ==
    { Unavailable,
      Page(<<>>),
      Page(<< [h2 |-> Some(<<"P","C","-","1","2"," ","F","O">>), companyName |-> None,
               a |-> Some("a"), href |-> Some(<<"/rc/1">>)] >>),
      Page(<< [h2 |-> None, companyName |-> Some(<<"A","m","e","r","i","f","l","i","g","h","t">>),
               a |-> Some("a"), href |-> Some(<<"/rc/2">>)],
              [h2 |-> Some(<<"P","C","-","1","2"," ","F","O">>), companyName |-> None,
               a |-> Some("a"), href |-> Some(<<"/rc/1">>)] >>) }

ZipRecruiterPages ==
    { Unavailable,
      Page(<< [a |-> None, href |-> None, org |-> None],
              [a |-> Some(<<"S","k","y">>), href |-> Some(<<"/c/3">>), org |-> Some(<<"C","o","u","r","i","e","r">>)],
              [a |-> Some(<<"C","h","e","f">>), href |-> Some(<<"http", "s://jobs.example/4">>),
               org |-> None] >>),
      Page(<< [a |-> Some(<<"S","k","y">>), href |-> None, org |-> Some(<<"C","o","u","r","i","e","r">>)] >>) }

PilotCareerCenterPages ==
    { Unavailable,
      Page(<< <<>>, << <<"F","O">>, <<"C","a","r","g","o">> >>, << <<"C","h","e","f">> >> >>) }

GlassdoorPages ==
    { Unavailable,
      Page(<< [title |-> None, company |-> None, link |-> None],
              [title |-> Some(<<"C","a","r","a","v","a","n">>), company |-> Some(<<"A","m","e","r","i","f","l","i","g","h","t">>),
               link |-> Some(<<"/job/5">>)] >>) }

Pages(src) ==
    CASE src = "Indeed" -> IndeedPages
      [] src = "ZipRecruiter" -> ZipRecruiterPages
      [] src = "PilotCareerCenter" -> PilotCareerCenterPages
      [] src = "Glassdoor" -> GlassdoorPages

\* The day the model's clock starts on: 2024-03-05, so that the retention window
\* reaches back over 29 February
FirstDay == toordinal(<<2024, 3, 5>>)

\* What an earlier run stored under day n
StoredJobs(n) ==
    IF n % 2 = 0
    THEN <<Job(<<"C","a","r","g","o"," ","F","O">>, Unknown, <<"http", "s://www.indeed.com", "/rc/0">>, "Indeed")>>
    ELSE <<>>

\* The history earlier runs left on the days `days`
StoredHistory(days) ==
    [k \in {isoformat(fromordinal(n)) : n \in days} |-> StoredJobs(toordinal(fromisoformat(k).value))]

\* The days just around the retention cutoff of a run on day c
EdgeDays(c) == {c - DAYS_TO_KEEP - 1, c - DAYS_TO_KEEP, c - DAYS_TO_KEEP + 1}

InitFiles(c) ==
    { MissingFile,
      UnreadableFile,
      StoredFile(StoredHistory((c - PastDays)..(c - 1))),
      StoredFile(StoredHistory(EdgeDays(c))) }

(***************************************************************************)
(* main (lines 137-147) and the process around it.                         *)
(***************************************************************************)
\* main rendering the report before it updates the history
Program_RendersFirst == <<"Indeed", "ZipRecruiter", "PilotCareerCenter", "Glassdoor",
                          "filter", "render", "update">>

\* main updating the history before the last adapter has run
Program_UpdatesEarly == <<"Indeed", "ZipRecruiter", "PilotCareerCenter",
                          "filter", "update", "Glassdoor", "render">>

\* The statements of main in order, each named by what it calls
Program == <<"Indeed", "ZipRecruiter", "PilotCareerCenter", "Glassdoor",
             "filter", "update", "render">>

\* The statement after `stage`; after the last one main prints and returns
After(stage) ==
    LET i == CHOOSE j \in 1..Len(Program) : Program[j] = stage
    IN  IF i = Len(Program) THEN "done" ELSE Program[i + 1]

NoFailure == [stage |-> "none", error |-> NoError]

\* An exception nothing catches ends the process at the statement that raised it
Propagate(stage, error) ==
    /\ pc' = "aborted"
    /\ failed' = [stage |-> stage, error |-> error]

Init ==
    /\ pc = "idle"
    /\ failed = NoFailure
    /\ clock = FirstDay
    /\ ticks = 0
    /\ runs = 0
    /\ file \in InitFiles(FirstDay)
    /\ doc = NoDoc
    /\ KEYWORDS = DefaultKeywords
    /\ all_jobs = <<>>
    /\ today_jobs = <<>>
    /\ history = EmptyDict
    /\ upd = NoLocals
    /\ log = <<>>
    /\ run0 = [file |-> file, doc |-> doc]
    /\ saves = <<>>

\* python scraper.py: a new process runs main from its first statement (line 138)
StartRun ==
    /\ pc \in {"idle", "done", "aborted"}
    /\ runs < MaxRuns
    /\ runs' = runs + 1
    /\ pc' = Program[1]
    /\ failed' = NoFailure
    /\ all_jobs' = <<>>
    /\ today_jobs' = <<>>
    /\ history' = EmptyDict
    /\ upd' = NoLocals
    /\ log' = <<>>
    /\ run0' = [file |-> file, doc |-> doc]
    /\ UNCHANGED <<clock, ticks, file, doc, KEYWORDS, saves>>

\* Midnight passes
Tick ==
    /\ ticks < MaxTicks
    /\ clock' = clock + 1
    /\ ticks' = ticks + 1
    /\ UNCHANGED <<pc, failed, runs, file, doc, KEYWORDS, all_jobs, today_jobs,
                   history, upd, log, run0, saves>>

\* all_jobs.extend(fetch_<src>(JOB_SOURCES[<src>])) (lines 139-142)
Fetch(src) ==
    /\ pc = src
    /\ \E page \in Pages(src) :
         LET r == fetch(src, page)
         IN  IF r.raised # NoError
             THEN Propagate(src, r.raised) /\ UNCHANGED all_jobs
             ELSE /\ all_jobs' = all_jobs \o r.value
                  /\ pc' = After(src)
                  /\ UNCHANGED failed
    /\ UNCHANGED <<clock, ticks, runs, file, doc, KEYWORDS, today_jobs, history,
                   upd, log, run0, saves>>

FetchIndeed == Fetch("Indeed")
FetchZip == Fetch("ZipRecruiter")
FetchPilotCareerCenter == Fetch("PilotCareerCenter")
FetchGlassdoor == Fetch("Glassdoor")

\* today_jobs = filter_jobs(all_jobs) (line 144)
FilterJobs ==
    /\ pc = "filter"
    /\ today_jobs' = filter_jobs(all_jobs, KEYWORDS)
    /\ log' = Append(log, "filter")
    /\ pc' = After("filter")
    /\ UNCHANGED <<failed, clock, ticks, runs, file, doc, KEYWORDS, all_jobs,
                   history, upd, run0, saves>>

\* The days the clock may show at update_history's second date.today(): the day
\* of the first one, or the next when midnight passes between lines 92 and 97
SecondReads == {clock} \cup (IF ticks < MaxTicks THEN {clock + 1} ELSE {})

\* history = update_history(today_jobs) (line 145, lines 91-101)
UpdateHistory ==
    /\ pc = "update"
    /\ \E c2 \in SecondReads, outcome \in SaveOutcomes :
         LET r == update_history(file, today_jobs, clock, c2)
         IN  /\ upd' = r.locals
             /\ log' = log \o r.calls
             /\ IF r.raised # NoError
                THEN /\ Propagate("update", r.raised)
                     /\ UNCHANGED <<file, history, saves>>
                     /\ IF r.locals.cutoff = <<>>
                        THEN UNCHANGED <<clock, ticks>>
                        ELSE clock' = c2 /\ ticks' = ticks + (c2 - clock)
                ELSE /\ file' = save_history(file, r.value, outcome)
                     /\ clock' = c2
                     /\ ticks' = ticks + (c2 - clock)
                     /\ IF outcome = "written"
                        THEN /\ history' = r.value
                             /\ saves' = Append(saves, [key |-> r.locals.today_str,
                                                        jobs |-> today_jobs])
                             /\ pc' = After("update")
                             /\ UNCHANGED failed
                        ELSE /\ Propagate("update", "OSError")
                             /\ UNCHANGED <<history, saves>>
    /\ UNCHANGED <<runs, doc, KEYWORDS, all_jobs, today_jobs, run0>>

\* generate_html(today_jobs, history) (line 146), then the print of line 147
GenerateHtml ==
    /\ pc = "render"
    /\ \E outcome \in RenderOutcomes :
         /\ doc' = generate_html(doc, today_jobs, history, clock, outcome)
         /\ IF outcome = "written"
            THEN pc' = After("render") /\ UNCHANGED failed
            ELSE Propagate("render", "OSError")
    /\ log' = Append(log, "render")
    /\ UNCHANGED <<clock, ticks, runs, file, KEYWORDS, all_jobs, today_jobs,
                   history, upd, run0, saves>>

Next ==
    \/ StartRun
    \/ Tick
    \/ FetchIndeed
    \/ FetchZip
    \/ FetchPilotCareerCenter
    \/ FetchGlassdoor
    \/ FilterJobs
    \/ UpdateHistory
    \/ GenerateHtml

Spec == Init /\ [][Next]_vars

(***************************************************************************)
(* filter_jobs on its own: any keyword list of lowercase keywords (the     *)
(* keyword set is configuration) and any short sequence of listings.       *)
(***************************************************************************)
SampleJobs ==
    { Job(<<"P","C","-","1","2"," ","F","O">>, Unknown, <<"http", "s://www.indeed.com", "/rc/1">>, "Indeed"),
      Job(<<"S","k","y">>, <<"C","o","u","r","i","e","r">>, <<"http", "s://www.ziprecruiter.com", "/c/3">>, "ZipRecruiter"),
      Job(<<"F","O">>, <<"C","a","r","g","o">>, JOB_SOURCES["PilotCareerCenter"], "PilotCareerCenter"),
      Job(<<"C","a","r">>, <<"g","o">>, JOB_SOURCES["PilotCareerCenter"], "PilotCareerCenter"),
      Job(<<"C","h","e","f">>, Unknown, <<"http", "s://jobs.example/4">>, "ZipRecruiter") }

KeywordLists ==
    { <<>>,
      DefaultKeywords,
      << <<"c","a","r","a","v","a","n">> >>,
      << <<"s","k","y"," ","c","o","u","r","i","e","r">>, <<"c","a","r","g","o">> >>,
      << <<"o">> >> }

SeqsUpTo(S, n) == UNION {[1..m -> S] : m \in 0..n}

InitFilter ==
    /\ pc = "filter"
    /\ failed = NoFailure
    /\ clock = FirstDay
    /\ ticks = 0
    /\ runs = 1
    /\ file = MissingFile
    /\ doc = NoDoc
    /\ KEYWORDS \in KeywordLists
    /\ all_jobs \in SeqsUpTo(SampleJobs, MaxJobs)
    /\ today_jobs = <<>>
    /\ history = EmptyDict
    /\ upd = NoLocals
    /\ log = <<>>
    /\ run0 = [file |-> file, doc |-> doc]
    /\ saves = <<>>

NextFilter == FilterJobs

SpecFilter == InitFilter /\ [][NextFilter]_vars

(***************************************************************************)
(* Properties.                                                             *)
(***************************************************************************)
SourceNames == {"Indeed", "ZipRecruiter", "PilotCareerCenter", "Glassdoor"}

Logged(e) == \E i \in 1..Len(log) : log[i] = e
Count(e) == Cardinality({i \in 1..Len(log) : log[i] = e})
Before(e1, e2) ==
    \A j \in 1..Len(log) : log[j] = e2 => \E i \in 1..(j - 1) : log[i] = e1

\* update_history returned in this run
Updated == Logged("save") /\ failed.stage # "update"

DateOf(key) == fromisoformat(key).value
KeyOfDay(d, back) == isoformat(MinusDays(d, back))

\* C1: when a source's fetch fails (the others being able to succeed), the run
\* still completes: the failure does not end the run, the failed source just
\* contributes nothing.  Stated as: no run is ever ended by a fetch failure.
C1_FetchFailureDoesNotEndRun ==
    ~(pc = "aborted" /\ failed.stage \in SourceNames /\ failed.error = "ConnectionError")

\* C2: after update_history with today's date T and retention N, every key of the
\* returned and saved history has a date >= T - N, and every key of the prior
\* history with a date >= T - N is still there with its listings (T itself holding
\* today's listings).
C2_RetentionWindow ==
    Updated =>
        LET T == DateOf(upd.today_str)
            oldest == MinusDays(T, DAYS_TO_KEEP)
        IN  /\ file = StoredFile(history)
            /\ \A k \in DOMAIN history : DateGeq(DateOf(k), oldest)
            /\ upd.today_str \in DOMAIN history
            /\ \A k \in DOMAIN upd.loaded :
                 (k # upd.today_str /\ DateGeq(DateOf(k), oldest))
                    => (k \in DOMAIN history /\ history[k] = upd.loaded[k])

\* C3: two successive update_history calls on the same calendar date, with listings
\* A then B, leave that date's key mapped to exactly B, in one entry for the date.
C3_Overwrite ==
    (Updated /\ Len(saves) >= 2 /\ saves[Len(saves) - 1].key = saves[Len(saves)].key) =>
        LET key == saves[Len(saves)].key
            B == saves[Len(saves)].jobs
        IN  /\ key \in DOMAIN history /\ history[key] = B
            /\ file.readable /\ key \in DOMAIN file.data /\ file.data[key] = B
            /\ Cardinality({k \in DOMAIN history : DateOf(k) = DateOf(key)}) = 1

C3_Witness ==
    /\ Updated /\ Len(saves) >= 2
    /\ saves[Len(saves) - 1].key = saves[Len(saves)].key
    /\ saves[Len(saves) - 1].jobs # <<>>
    /\ saves[Len(saves) - 1].jobs # saves[Len(saves)].jobs

\* C4: with the 35 days before today stored and retention 30, one update_history
\* leaves exactly 30 keys, the 30 most recent days including today.
C4_ThirtyKeysRemain ==
    LET T == DateOf(upd.today_str)
    IN  (/\ Updated
         /\ DAYS_TO_KEEP = 30
         /\ DOMAIN upd.loaded = {KeyOfDay(T, back) : back \in 1..35})
        => /\ Cardinality(DOMAIN history) = 30
           /\ DOMAIN history = {KeyOfDay(T, back) : back \in 0..29}

\* k occurs in text at some offset, letters compared without regard to case
CaseInsensitiveSubstring(k, text) ==
    \E off \in 0..(Len(text) - Len(k)) :
        \A j \in 1..Len(k) : LowerChar(text[off + j]) = LowerChar(k[j])

\* C5: filter_jobs returns, in order, exactly the listings for which some keyword
\* is a case-insensitive substring of title + " " + company; none for no keywords.
C5_FilterCorrect ==
    Logged("filter") =>
        LET Passes(L) ==
                \E i \in 1..Len(KEYWORDS) :
                    CaseInsensitiveSubstring(KEYWORDS[i], L.title \o << " " >> \o L.company)
        IN  /\ today_jobs = SelectSeq(all_jobs, Passes)
            /\ (KEYWORDS = <<>> => today_jobs = <<>>)

C5_Witness ==
    /\ Logged("filter")
    /\ Len(all_jobs) = 2 /\ Len(today_jobs) = 1
    /\ today_jobs[1].title = <<"P","C","-","1","2"," ","F","O">>
    /\ all_jobs[2] = today_jobs[1]

\* C6: with no history file, loading gives the empty history and no error; with
\* a file that cannot be read, the error reaches the invoker, the run ends, the
\* file is as it was and save_history is not called.
C6_LoadFailure ==
    Logged("load") =>
        /\ ~run0.file.exists =>
              /\ upd.loaded = EmptyDict
              /\ upd.cutoff # <<>>
              /\ failed.error # "JSONDecodeError"
        /\ (run0.file.exists /\ ~run0.file.readable) =>
              /\ pc = "aborted"
              /\ failed = [stage |-> "update", error |-> "JSONDecodeError"]
              /\ file = run0.file
              /\ ~Logged("save")

C6_Witness ==
    /\ Logged("load")
    /\ run0.file = UnreadableFile
    /\ pc = "aborted"
    /\ runs = 2

\* C7: the pruning cutoff of an update_history call is the inserted day-key's date
\* minus the retention days, whatever the clock does between the two reads.
C7_CutoffFromInsertedKey ==
    upd.cutoff # <<>> => upd.cutoff = MinusDays(DateOf(upd.today_str), DAYS_TO_KEEP)

\* C8: an element without an extractable title or link is skipped; it does not
\* end its adapter.  Stated as: no adapter is ever ended by an element.
C8_MalformedElementSkipped ==
    ~(/\ pc = "aborted"
      /\ failed.stage \in SourceNames
      /\ failed.error \in {"AttributeError", "TypeError", "KeyError"})

C10_AdapterFailureLeavesFilesAlone ==
    /\ failed.stage \in SourceNames => (file = run0.file /\ doc = run0.doc)
    /\ pc \in SourceNames => (file = run0.file /\ doc = run0.doc)
    /\ (pc \in SourceNames \/ failed.stage \in SourceNames) =>
          (~Logged("save") /\ ~Logged("render"))

C10_Witness ==
    /\ pc = "aborted"
    /\ failed.stage = "Glassdoor"
    /\ run0.file.exists /\ run0.file.readable
    /\ run0.doc.complete
    /\ file = run0.file /\ doc = run0.doc

====
